---- MODULE Spec2Model ----
(***************************************************************************)
(* Model of the DHCPv6 server configuration path of Kea:                   *)
(*   src/src/bin/dhcp6/json_config_parser.cc                               *)
(*     configureCommandChannel()  and  configureDhcp6Server()              *)
(* One reconfiguration is a sequence of steps of configureDhcp6Server;     *)
(* the collaborators it calls (CfgMgr, LibDHCP, CommandMgr, TimerMgr,      *)
(* HooksConfig, the section parsers) are modelled by their effect on the   *)
(* state the function can observe.                                         *)
(***************************************************************************)
EXTENDS Integers, Sequences, FiniteSets, TLC

(***************************************************************************)
(* Bounds of the model.                                                    *)
(***************************************************************************)
\* number of configureDhcp6Server calls in one behaviour
MaxCalls == 3

(***************************************************************************)
(* The configuration tree.                                                 *)
(***************************************************************************)
Absent == "absent"
None == "none"

\* The top-level keys of the documents, in the order in which
\* std::map<std::string, ConstElementPtr> (mapValue()) iterates them.
KeyOrder ==
    << "control-socket", "decline-probation-period", "dhcp-ddns",
       "hooks-libraries", "not-a-real-section", "option-data", "option-def",
       "relay-supplied-options", "subnet6" >>

Keys == { KeyOrder[i] : i \in 1..Len(KeyOrder) }

KeyPos(k) == CHOOSE i \in 1..Len(KeyOrder) : KeyOrder[i] = k

\* Documents exercising the parse phase: the values each key may take
\* ("bad" is a value the key's parser rejects, "libMissing" a library
\* that does not exist).
ParseVals ==
  [k \in Keys |->
    CASE k = "decline-probation-period" -> { "bad" }
      [] k = "hooks-libraries"          -> { "libMissing" }
      [] k = "not-a-real-section"       -> { "x" }
      [] k = "option-def"               -> { "defX", "bad" }
      [] k = "subnet6"                  -> { "one", "bad" }
      [] OTHER                          -> {} ]

\* Documents exercising the commit phase ("libBad" is a library that
\* exists and fails to load).
CommitVals ==
  [k \in Keys |->
    CASE k = "control-socket"           -> { "sockA", "sockB" }
      [] k = "dhcp-ddns"                -> { "d2on" }
      [] k = "hooks-libraries"          -> { "libA", "libA,libBad" }
      [] OTHER                          -> {} ]

\* Documents in which either phase may fail.
MixedVals ==
  [k \in Keys |->
    CASE k = "control-socket"           -> { "sockA" }
      [] k = "dhcp-ddns"                -> { "d2on" }
      [] k = "hooks-libraries"          -> { "libA,libBad" }
      [] k = "not-a-real-section"       -> { "x" }
      [] k = "option-def"               -> { "defX" }
      [] OTHER                          -> {} ]

\* Documents with option definitions and option data that refer to them by
\* name ("useX" is an option-data entry naming the option "defX" defines,
\* "oneUseX" a subnet that holds such an entry).
DefVals ==
  [k \in Keys |->
    CASE k = "option-data"              -> { "useX" }
      [] k = "option-def"               -> { "defX", "bad" }
      [] k = "subnet6"                  -> { "one", "oneUseX" }
      [] OTHER                          -> {} ]

\* The maps over the keys, as sequences of values in key order.
RECURSIVE TreesOver(_, _)
TreesOver(V, i) ==
    IF i = 0 THEN { <<>> }
    ELSE { Append(t, v) : t \in TreesOver(V, i - 1),
                          v \in V[KeyOrder[i]] \cup { Absent } }

Trees(V) ==
    { [k \in Keys |-> s[KeyPos(k)]] : s \in TreesOver(V, Len(KeyOrder)) }

NoKeys == [k \in Keys |-> Absent]

\* config_set: a null pointer, or a map element.
NullConfig == [null |-> TRUE, kv |-> NoKeys]

Inputs(V) ==
    { NullConfig } \cup { [null |-> FALSE, kv |-> kv] : kv \in Trees(V) }

ParseInputs == Inputs(ParseVals)
CommitInputs == Inputs(CommitVals)
MixedInputs == Inputs(MixedVals)
DefInputs == Inputs(DefVals)

\* Documents with the order in which their author wrote the keys: the map
\* element keeps its children in a std::map, which does not record it.
OrderVals ==
  [k \in Keys |->
    CASE k = "control-socket"           -> { "sockA" }
      [] k = "option-def"               -> { "defX" }
      [] k = "subnet6"                  -> { "one" }
      [] OTHER                          -> {} ]

RECURSIVE Orders(_)
Orders(S) ==
    IF S = {} THEN { <<>> }
    ELSE UNION { { <<k>> \o o : o \in Orders(S \ { k }) } : k \in S }

OrderInputs ==
    UNION { { [null |-> FALSE, kv |-> kv, written |-> o] :
                  o \in Orders({ k \in Keys : kv[k] # Absent }) } :
            kv \in Trees(OrderVals) }

\* longest "relay-supplied-options" list of a document
MaxList == 2

\* The strings a "relay-supplied-options" list may hold, as sequences of
\* characters: option codes written as numbers, in and out of range, the
\* name of a standard option and a name no option has.  The lists hold
\* each string at most once.
RsooEntries ==
    { << "0" >>, << "6", "5", "5", "3", "5" >>,
      << "6", "5", "5", "3", "6" >>, << "-", "1" >>,
      << "u", "n", "i", "c", "a", "s", "t" >>, << "x" >> }

RECURSIVE RsooLists(_)
RsooLists(n) ==
    IF n = 0 THEN { <<>> }
    ELSE RsooLists(n - 1)
           \cup UNION { { Append(l, e) :
                             e \in RsooEntries \ { l[i] : i \in 1..Len(l) } } :
                         l \in { m \in RsooLists(n - 1) : Len(m) = n - 1 } }

\* Documents with a "relay-supplied-options" list: the map holds the list
\* element and the field list its content (listValue()).
RsooVals ==
  [k \in Keys |->
    CASE k = "relay-supplied-options"   -> { "list" }
      [] OTHER                          -> {} ]

RsooInputs ==
    UNION { { [null |-> FALSE, kv |-> kv, list |-> l] :
                  l \in IF kv["relay-supplied-options"] = Absent
                        THEN { <<>> } ELSE RsooLists(MaxList) } :
            kv \in Trees(RsooVals) }

(***************************************************************************)
(* SrvConfig: what one configuration generation holds.                     *)
(***************************************************************************)
EmptyCfg ==
    [ ctrl |-> None, d2 |-> "d2off", hooks |-> <<>>, optdef |-> {},
      options |-> {}, subnets |-> <<>>, decline |-> None, rsoo |-> {} ]

NoAnswer == [status |-> -1, msg |-> <<>>]

VARIABLES
    pc,            \* position inside configureDhcp6Server, or "idle"/"returned"
    config_set,    \* the caller's tree (the element config_set points to)
    check_only,    \* the check_only argument
    current,       \* CfgMgr: the current configuration  [id, cfg]
    staging,       \* CfgMgr: the staging configuration  [id, cfg]
    runtime_option_defs_, \* LibDHCP: [staging, current, modified]
    subnet_id,     \* Subnet: the static subnet-id counter
    timers,        \* TimerMgr: are timers registered
    active_sock,   \* CommandMgr: the open command socket, or None
    d2_active,     \* CfgMgr/D2ClientMgr: the active D2 client configuration
    hooks_loaded,  \* HooksManager: the libraries loaded
    answer,        \* local: answer
    rollback,      \* local: rollback
    config_pair,   \* local: config_pair.first ("" before the loop)
    todo,          \* local: the keys BOOST_FOREACH has still to visit
    log,           \* the collaborator calls made by the present call
    pre,           \* the state when the present call was entered
    ncalls,        \* calls made so far
    opt            \* OptionDataParser: the option specification being parsed

srv_vars ==
    << pc, config_set, check_only, current, staging, runtime_option_defs_,
       subnet_id, timers, active_sock, d2_active, hooks_loaded, answer,
       rollback, config_pair, todo, log, pre, ncalls >>

vars == << srv_vars, opt >>

(***************************************************************************)
(* LibDHCP: the runtime option definitions, a staged value.                *)
(***************************************************************************)
\* LibDHCP::getRuntimeOptionDefs: the staged value when one has been set.
getRuntimeOptionDefs(rt) == IF rt.modified THEN rt.staging ELSE rt.current

setRuntimeOptionDefs(rt, defs) ==
    [rt EXCEPT !.staging = defs, !.modified = TRUE]

revertRuntimeOptionDefs(rt) ==
    [rt EXCEPT !.staging = {}, !.modified = FALSE]

commitRuntimeOptionDefs(rt) ==
    IF rt.modified
    THEN [staging |-> {}, current |-> rt.staging, modified |-> FALSE]
    ELSE rt

Snapshot ==
    [ current |-> current, staging |-> staging,
      rt |-> getRuntimeOptionDefs(runtime_option_defs_),
      subnet_id |-> subnet_id, timers |-> timers, active_sock |-> active_sock,
      d2_active |-> d2_active, hooks_loaded |-> hooks_loaded,
      config_set |-> config_set ]

InitServer ==
    /\ pc = "idle"
    /\ config_set = NullConfig
    /\ check_only = FALSE
    /\ current = [id |-> 0, cfg |-> EmptyCfg]
    /\ staging = [id |-> 1, cfg |-> EmptyCfg]
    /\ runtime_option_defs_ = [staging |-> {}, current |-> {}, modified |-> FALSE]
    /\ subnet_id = 1
    /\ timers = FALSE
    /\ active_sock = None
    /\ d2_active = "d2off"
    /\ hooks_loaded = <<>>
    /\ answer = NoAnswer
    /\ rollback = FALSE
    /\ config_pair = ""
    /\ todo = <<>>
    /\ log = <<>>
    /\ pre = Snapshot
    /\ ncalls = 0

\* No option specification is being parsed.
NoOption == [ pc |-> "none" ]

Init == InitServer /\ opt = NoOption

(***************************************************************************)
(* configureDhcp6Server, the parse phase.                                  *)
(***************************************************************************)
\* SimpleParser6::setAllDefaults: the global scalars the document leaves
\* out are inserted with their default.
setAllDefaults(kv) ==
    [kv EXCEPT !["decline-probation-period"] =
        IF @ = Absent THEN "86400" ELSE @]

\* The keys of a map in std::map iteration order.
RECURSIVE KeysFrom(_, _)
KeysFrom(kv, i) ==
    IF i > Len(KeyOrder) THEN <<>>
    ELSE IF kv[KeyOrder[i]] # Absent
         THEN <<KeyOrder[i]>> \o KeysFrom(kv, i + 1)
         ELSE KeysFrom(kv, i + 1)

\* (mutant: the map is iterated from its last key to its first)
RECURSIVE mapValue_Reversed(_)
mapValue_Reversed(kv) ==
    LET present == { i \in 1..Len(KeyOrder) : kv[KeyOrder[i]] # Absent } IN
    IF present = {} THEN <<>>
    ELSE LET last == CHOOSE i \in present : \A j \in present : j <= i
         IN << KeyOrder[last] >>
            \o mapValue_Reversed([kv EXCEPT ![KeyOrder[last]] = Absent])

mapValue(kv) == KeysFrom(kv, 1)

\* The values a parser throws on: a malformed value, or a hook library
\* that verifyLibraries does not find.
Rejects(k, v) ==
    \/ v = "bad"
    \/ k = "hooks-libraries" /\ v = "libMissing"

\* LibDHCP::getRuntimeOptionDef: the definition an option-data entry names
\* is looked up among the runtime option definitions.
NamesOption(v) == v \in { "useX", "oneUseX" }

getRuntimeOptionDef(v) ==
    IF "defX" \in getRuntimeOptionDefs(runtime_option_defs_)
    THEN "defX" ELSE None

(***************************************************************************)
(* RSOOListConfigParser: the list of relay-supplied options.               *)
(***************************************************************************)
UINT16_MAX == 65535

DHCP6_OPTION_SPACE == "dhcp6"

Digits == << "0", "1", "2", "3", "4", "5", "6", "7", "8", "9" >>

DigitVal(c) == (CHOOSE i \in 1..Len(Digits) : Digits[i] = c) - 1

IsDigit(c) == \E i \in 1..Len(Digits) : Digits[i] = c

\* The number a sequence of digits writes.
RECURSIVE Decimal(_)
Decimal(d) ==
    IF d = <<>> THEN 0
    ELSE 10 * Decimal(SubSeq(d, 1, Len(d) - 1)) + DigitVal(d[Len(d)])

\* boost::lexical_cast<int64_t>: the whole string is an optional sign and
\* at least one digit, or the cast throws bad_lexical_cast (the empty
\* set).  The strings of the model are too short to overflow int64_t.
lexical_cast(option_str) ==
    LET signed == option_str # <<>> /\ option_str[1] \in { "-", "+" }
        d == IF signed THEN Tail(option_str) ELSE option_str
    IN  IF d = <<>> \/ \E i \in 1..Len(d) : ~IsDigit(d[i])
        THEN {}
        ELSE { IF option_str[1] = "-" THEN 0 - Decimal(d) ELSE Decimal(d) }

\* The standard option definitions of LibDHCP, by space and name.
StdOptionDefs ==
    { [ space |-> "dhcp6", name |-> << "u", "n", "i", "c", "a", "s", "t" >>,
        code |-> 12 ] }

\* LibDHCP::getOptionDef(space, name): the definition, or none.
getOptionDef(space, name) ==
    { def \in StdOptionDefs : def.space = space /\ def.name = name }

\* The body of the loop of RSOOListConfigParser::parse for one element:
\* the code it enables, or the BadValue it throws.
RsooEntry(option_str) ==
    LET cast == lexical_cast(option_str)
        code == IF cast = {} THEN 0 ELSE CHOOSE n \in cast : TRUE
    IN  IF code < 0
        THEN [ ok |-> FALSE, code |-> 0,
               what |-> "the option code must be a non-negative value" ]
        ELSE IF code > UINT16_MAX
        THEN [ ok |-> FALSE, code |-> 0,
               what |-> "the option code must not be greater than 65535" ]
        ELSE IF code = 0
        THEN LET def == getOptionDef(DHCP6_OPTION_SPACE, option_str) IN
             IF def # {}
             THEN [ ok |-> TRUE, code |-> (CHOOSE o \in def : TRUE).code,
                    what |-> "" ]
             ELSE [ ok |-> FALSE, code |-> 0,
                    what |-> "unable to find option code for the specified option name" ]
        ELSE [ ok |-> TRUE, code |-> code, what |-> "" ]

\* value->getPosition(), as it is appended to the message.
getPosition(k) == "(position of the element)"

\* (mutant: an element that is rejected is left out and the loop goes on)
RSOOListConfigParser_GoesOn(value) ==
    [ ok |-> TRUE,
      enabled |-> { RsooEntry(value[i]).code :
                      i \in { j \in 1..Len(value) : RsooEntry(value[j]).ok } },
      msg |-> <<>> ]

\* RSOOListConfigParser::parse: the codes enabled in cfg->getCfgRSOO()
\* until an element throws, and the DhcpConfigError the catch clause
\* rethrows with the position of the list.
RSOOListConfigParser(value) ==
    LET bad == { i \in 1..Len(value) : ~RsooEntry(value[i]).ok }
        stop == IF bad = {} THEN Len(value) + 1
                ELSE CHOOSE i \in bad : \A j \in bad : i <= j
    IN  [ ok |-> bad = {},
          enabled |-> { RsooEntry(value[i]).code : i \in 1..(stop - 1) },
          msg |-> IF bad = {} THEN <<>>
                  ELSE << RsooEntry(value[stop]).what, "relay-supplied-options",
                          getPosition("relay-supplied-options") >> ]

\* config_pair.second->listValue() of the "relay-supplied-options" element.
listValue == config_set.list

\* The parser of key k throws on the value v.
ParserThrows(k, v) ==
    \/ Rejects(k, v)
    \/ NamesOption(v) /\ getRuntimeOptionDef(v) = None
    \/ k = "relay-supplied-options" /\ ~RSOOListConfigParser(listValue).ok

\* The message of the exception the parser of key k throws.
ParserMessage(k) ==
    IF k = "relay-supplied-options"
    THEN RSOOListConfigParser(listValue).msg
    ELSE << "error in ", k >>

\* SrvConfigPtr srv_config = CfgMgr::instance().getStagingCfg();
\* the configuration the section parsers write into.
srv_config_Current == "current"
srv_config == "staging"

\* The configuration a SrvConfigPtr points to.
Deref(ptr) == IF ptr = "staging" THEN staging ELSE current

\* A write through a SrvConfigPtr.
Store(ptr, obj) ==
    /\ staging' = IF ptr = "staging" THEN obj ELSE staging
    /\ current' = IF ptr = "current" THEN obj ELSE current

\* The catch clauses of the parse phase: answer 1, rollback.
ParseFails_NoRollback(msg) ==
    /\ answer' = [status |-> 1, msg |-> msg]
    /\ rollback' = FALSE
    /\ pc' = "check"

\* (mutant: the failure is recorded and the parse phase goes on)
ParseFails_GoesOn(msg) ==
    /\ answer' = [status |-> 1, msg |-> msg]
    /\ rollback' = TRUE
    /\ pc' = "dispatch"

ParseFails(msg) ==
    /\ answer' = [status |-> 1, msg |-> msg]
    /\ rollback' = TRUE
    /\ pc' = "check"

\* The entry of configureDhcp6Server, up to the option-def pass
\* (mutant: the state is reset before the null test).
Enter_ResetFirst(input, chk) ==
    /\ \/ pc = "idle"
       \/ pc = "returned" /\ ~(answer.status = 0 /\ ~check_only)
    /\ ncalls < MaxCalls
    /\ ncalls' = ncalls + 1
    /\ check_only' = chk
    /\ pre' = [Snapshot EXCEPT !.config_set = input]
    /\ log' = <<>>
    /\ config_pair' = ""
    /\ todo' = <<>>
    /\ rollback' = FALSE
    /\ subnet_id' = 1
    /\ timers' = IF chk THEN timers ELSE FALSE
    /\ runtime_option_defs_' =
           setRuntimeOptionDefs(
               revertRuntimeOptionDefs(runtime_option_defs_), {})
    /\ IF input.null
       THEN /\ answer' = [status |-> 1, msg |-> <<"Can't parse NULL config">>]
            /\ pc' = "returned"
            /\ config_set' = input
       ELSE /\ answer' = NoAnswer
            /\ config_set' = [input EXCEPT !.kv = setAllDefaults(@)]
            /\ pc' = "optdef"
    /\ UNCHANGED << current, staging, active_sock, d2_active, hooks_loaded >>
    /\ UNCHANGED opt

\* (mutant: the runtime option definitions of the earlier configuration
\* are left in place)
Enter_KeepsDefs(input, chk) ==
    /\ \/ pc = "idle"
       \/ pc = "returned" /\ ~(answer.status = 0 /\ ~check_only)
    /\ ncalls < MaxCalls
    /\ ncalls' = ncalls + 1
    /\ check_only' = chk
    /\ pre' = [Snapshot EXCEPT !.config_set = input]
    /\ log' = <<>>
    /\ config_pair' = ""
    /\ todo' = <<>>
    /\ rollback' = FALSE
    /\ IF input.null
       THEN /\ answer' = [status |-> 1, msg |-> <<"Can't parse NULL config">>]
            /\ pc' = "returned"
            /\ config_set' = input
            /\ UNCHANGED << subnet_id, timers, runtime_option_defs_ >>
       ELSE /\ subnet_id' = 1
            /\ timers' = IF chk THEN timers ELSE FALSE
            /\ UNCHANGED runtime_option_defs_
            /\ answer' = NoAnswer
            /\ config_set' = [input EXCEPT !.kv = setAllDefaults(@)]
            /\ pc' = "optdef"
    /\ UNCHANGED << current, staging, active_sock, d2_active, hooks_loaded >>
    /\ UNCHANGED opt

\* The entry of configureDhcp6Server, up to the option-def pass.
Enter(input, chk) ==
    /\ \/ pc = "idle"
       \/ pc = "returned" /\ ~(answer.status = 0 /\ ~check_only)
    /\ ncalls < MaxCalls
    /\ ncalls' = ncalls + 1
    /\ check_only' = chk
    /\ pre' = [Snapshot EXCEPT !.config_set = input]
    /\ log' = <<>>
    /\ config_pair' = ""
    /\ todo' = <<>>
    /\ rollback' = FALSE
    /\ IF input.null
       THEN /\ answer' = [status |-> 1, msg |-> <<"Can't parse NULL config">>]
            /\ pc' = "returned"
            /\ config_set' = input
            /\ UNCHANGED << subnet_id, timers, runtime_option_defs_ >>
       ELSE /\ subnet_id' = 1
            /\ timers' = IF chk THEN timers ELSE FALSE
            /\ runtime_option_defs_' =
                   setRuntimeOptionDefs(
                       revertRuntimeOptionDefs(runtime_option_defs_), {})
            /\ answer' = NoAnswer
            /\ config_set' = [input EXCEPT !.kv = setAllDefaults(@)]
            /\ pc' = "optdef"
    /\ UNCHANGED << current, staging, active_sock, d2_active, hooks_loaded >>
    /\ UNCHANGED opt

\* (mutant: the definitions are not parsed ahead of the loop)
OptionDefPass_Left ==
    /\ pc = "optdef"
    /\ pc' = "dispatch"
    /\ todo' = mapValue(config_set.kv)
    /\ UNCHANGED << config_set, check_only, current, staging,
                    runtime_option_defs_, subnet_id, timers, active_sock,
                    d2_active, hooks_loaded, answer, rollback, config_pair,
                    log, pre, ncalls >>
    /\ UNCHANGED opt

\* "We need definitions first": OptionDefListParser on "option-def", which
\* also hands the parsed definitions to LibDHCP as runtime definitions.
OptionDefPass ==
    /\ pc = "optdef"
    /\ LET v == config_set.kv["option-def"] IN
       IF v = Absent
       THEN /\ pc' = "dispatch"
            /\ todo' = mapValue(config_set.kv)
            /\ UNCHANGED << current, staging, runtime_option_defs_, log,
                            answer, rollback >>
       ELSE IF Rejects("option-def", v)
       THEN /\ log' = log \o << <<"parse", "option-def">>,
                                <<"throw", "option-def">> >>
            /\ ParseFails(<<"error in ", "option-def">>)
            /\ UNCHANGED << current, staging, runtime_option_defs_, todo >>
       ELSE /\ log' = Append(log, <<"parse", "option-def">>)
            /\ Store(srv_config,
                     [Deref(srv_config) EXCEPT !.cfg.optdef = {v}])
            /\ runtime_option_defs_' =
                   setRuntimeOptionDefs(runtime_option_defs_, {v})
            /\ pc' = "dispatch"
            /\ todo' = mapValue(config_set.kv)
            /\ UNCHANGED << answer, rollback >>
    /\ UNCHANGED << config_set, check_only, subnet_id, timers, active_sock,
                    d2_active, hooks_loaded, config_pair, pre, ncalls >>
    /\ UNCHANGED opt

\* HooksLibrariesParser: the list of libraries a value names.
HookList(v) ==
    CASE v = "libA"        -> << "libA" >>
      [] v = "libA,libBad" -> << "libA", "libBad" >>
      [] v = "libMissing"  -> << "libMissing" >>

\* The keys the loop skips: handled before it, or global scalars.
SkippedKeys ==
    { "option-def", "renew-timer", "rebind-timer", "preferred-lifetime",
      "valid-lifetime", "decline-probation-period", "dhcp4o6-port" }

\* The keys for which the loop has a section parser.
ParsedKeys ==
    { "option-data", "mac-sources", "control-socket",
      "host-reservation-identifiers", "server-id", "interfaces-config",
      "expired-leases-processing", "hooks-libraries", "dhcp-ddns",
      "client-classes", "lease-database", "hosts-database", "subnet6",
      "relay-supplied-options" }

\* "If we got here, no code handled this parameter, so we bail out."
IsUnsupported_Never(k) == FALSE

IsUnsupported(k) == k \notin SkippedKeys /\ k \notin ParsedKeys

\* What the section parser of key k writes into the configuration cfg
\* (hooks: parse() fills the list before verifyLibraries() may throw).
SectionCfg(cfg, k, v) ==
    CASE k = "control-socket"  -> [cfg EXCEPT !.ctrl = v]
      [] k = "dhcp-ddns"       -> [cfg EXCEPT !.d2 = v]
      [] k = "hooks-libraries" -> [cfg EXCEPT !.hooks = HookList(v)]
      [] k = "option-data"     ->
             IF ParserThrows(k, v) THEN cfg
             ELSE [cfg EXCEPT !.options = { <<v, getRuntimeOptionDef(v)>> }]
      [] k = "relay-supplied-options" ->
             [cfg EXCEPT !.rsoo = @ \cup RSOOListConfigParser(listValue).enabled]
      [] OTHER                 -> cfg

\* One iteration of BOOST_FOREACH(config_pair, values_map).
Dispatch ==
    /\ pc = "dispatch"
    /\ todo # <<>>
    /\ LET k == Head(todo)
           v == config_set.kv[k]
       IN
       /\ config_pair' = k
       /\ IF IsUnsupported(k)
          THEN /\ ParseFails(<<"unsupported global configuration parameter: ", k>>)
               /\ log' = Append(log, <<"throw", k>>)
               /\ UNCHANGED << current, staging, subnet_id, todo >>
          ELSE IF k \notin ParsedKeys
          THEN /\ todo' = Tail(todo)
               /\ pc' = "dispatch"
               /\ UNCHANGED << current, staging, subnet_id, log, answer,
                               rollback >>
          ELSE /\ IF k = "subnet6"
                  THEN \* srv_cfg = CfgMgr::instance().getStagingCfg()
                       IF ParserThrows(k, v)
                       THEN UNCHANGED << current, staging, subnet_id >>
                       ELSE /\ staging' =
                                 [staging EXCEPT !.cfg.subnets = <<subnet_id>>]
                            /\ subnet_id' = subnet_id + 1
                            /\ UNCHANGED current
                  ELSE /\ Store(srv_config,
                                [Deref(srv_config) EXCEPT
                                    !.cfg = SectionCfg(@, k, v)])
                       /\ UNCHANGED subnet_id
               /\ IF ParserThrows(k, v)
                  THEN /\ ParseFails(ParserMessage(k))
                       /\ log' = log \o << <<"parse", k>>, <<"throw", k>> >>
                       /\ UNCHANGED todo
                  ELSE /\ todo' = Tail(todo)
                       /\ log' = Append(log, <<"parse", k>>)
                       /\ pc' = "dispatch"
                       /\ UNCHANGED << answer, rollback >>
    /\ UNCHANGED << config_set, check_only, runtime_option_defs_, timers,
                    active_sock, d2_active, hooks_loaded, pre, ncalls >>
    /\ UNCHANGED opt

\* Dhcp6ConfigParser::parse after the loop: the global scalars.
GlobalParse ==
    /\ pc = "dispatch"
    /\ todo = <<>>
    /\ LET v == config_set.kv["decline-probation-period"] IN
       IF Rejects("decline-probation-period", v)
       THEN /\ ParseFails(<<"error in ", "decline-probation-period">>)
            /\ log' = log \o << <<"parse", "global">>, <<"throw", "global">> >>
            /\ UNCHANGED << current, staging >>
       ELSE /\ Store(srv_config,
                     [Deref(srv_config) EXCEPT !.cfg.decline = v])
            /\ log' = Append(log, <<"parse", "global">>)
            /\ pc' = "check"
            /\ UNCHANGED << answer, rollback >>
    /\ UNCHANGED << config_set, check_only, runtime_option_defs_, subnet_id,
                    timers, active_sock, d2_active, hooks_loaded, config_pair,
                    todo, pre, ncalls >>
    /\ UNCHANGED opt

\* if (check_only) { rollback = true; if (!answer) answer = (0, ...) }
\* (mutant: check_only does not force the rollback)
CheckOnly_NoRollback ==
    /\ pc = "check"
    /\ rollback' = rollback
    /\ answer' = IF check_only /\ answer = NoAnswer
                 THEN [status |-> 0, msg |-> <<"Configuration seems sane.">>]
                 ELSE answer
    /\ pc' = IF rollback' THEN "finish" ELSE "commit_socket"
    /\ UNCHANGED << config_set, check_only, current, staging,
                    runtime_option_defs_, subnet_id, timers, active_sock,
                    d2_active, hooks_loaded, config_pair, todo, log, pre,
                    ncalls >>
    /\ UNCHANGED opt

\* (mutant: a check-only call always answers 0)
CheckOnly_Overwrites ==
    /\ pc = "check"
    /\ rollback' = (rollback \/ check_only)
    /\ answer' = IF check_only
                 THEN [status |-> 0, msg |-> <<"Configuration seems sane.">>]
                 ELSE answer
    /\ pc' = IF rollback' THEN "finish" ELSE "commit_socket"
    /\ UNCHANGED << config_set, check_only, current, staging,
                    runtime_option_defs_, subnet_id, timers, active_sock,
                    d2_active, hooks_loaded, config_pair, todo, log, pre,
                    ncalls >>
    /\ UNCHANGED opt

\* if (check_only) { rollback = true; if (!answer) answer = (0, ...) }
\* followed by the test if (!rollback).
CheckOnly ==
    /\ pc = "check"
    /\ rollback' = (rollback \/ check_only)
    /\ answer' = IF check_only /\ answer = NoAnswer
                 THEN [status |-> 0, msg |-> <<"Configuration seems sane.">>]
                 ELSE answer
    /\ pc' = IF rollback' THEN "finish" ELSE "commit_socket"
    /\ UNCHANGED << config_set, check_only, current, staging,
                    runtime_option_defs_, subnet_id, timers, active_sock,
                    d2_active, hooks_loaded, config_pair, todo, log, pre,
                    ncalls >>
    /\ UNCHANGED opt

(***************************************************************************)
(* configureDhcp6Server, the commit phase.                                 *)
(***************************************************************************)
\* The catch clauses of the commit phase: answer 2, rollback
\* (mutant: the failure is recorded and the next step still runs).
CommitFails_NoHalt(msg) ==
    /\ answer' = [status |-> 2, msg |-> msg]
    /\ rollback' = TRUE
    /\ pc' = IF pc = "commit_socket" THEN "commit_d2" ELSE "finish"

\* (mutant: a commit failure is answered like a parse failure)
CommitFails_Status1(msg) ==
    /\ answer' = [status |-> 1, msg |-> msg]
    /\ rollback' = TRUE
    /\ pc' = "finish"

CommitFails(msg) ==
    /\ answer' = [status |-> 2, msg |-> msg]
    /\ rollback' = TRUE
    /\ pc' = "finish"

\* configureCommandChannel: has the socket configuration changed.
sock_changed(sock_cfg, current_sock_cfg) ==
    sock_cfg # None /\ current_sock_cfg # None /\ sock_cfg # current_sock_cfg

\* configureCommandChannel: is the existing socket closed
\* (mutant: the socket is always closed and reopened).
ClosesSocket_Always(sock_cfg, current_sock_cfg) == TRUE

ClosesSocket(sock_cfg, current_sock_cfg) ==
    \/ sock_cfg = None
    \/ current_sock_cfg = None
    \/ sock_changed(sock_cfg, current_sock_cfg)

\* configureCommandChannel(), the first step of the commit phase.
\* openCommandSocket may throw.
ConfigureCommandChannel ==
    /\ pc = "commit_socket"
    /\ LET sock_cfg == staging.cfg.ctrl
           current_sock_cfg == current.cfg.ctrl
       IN
       IF ClosesSocket(sock_cfg, current_sock_cfg)
       THEN IF sock_cfg # None
            THEN \E opened \in BOOLEAN :
                   IF opened
                   THEN /\ log' = log \o << <<"close">>, <<"open", sock_cfg>> >>
                        /\ active_sock' = sock_cfg
                        /\ pc' = "commit_d2"
                        /\ UNCHANGED << answer, rollback >>
                   ELSE /\ log' = log \o << <<"close">>, <<"open", sock_cfg>>,
                                            <<"throw", "open">> >>
                        /\ active_sock' = None
                        /\ CommitFails(<<"unable to open ", sock_cfg>>)
            ELSE /\ log' = Append(log, <<"close">>)
                 /\ active_sock' = None
                 /\ pc' = "commit_d2"
                 /\ UNCHANGED << answer, rollback >>
       ELSE /\ pc' = "commit_d2"
            /\ UNCHANGED << log, active_sock, answer, rollback >>
    /\ UNCHANGED << config_set, check_only, current, staging,
                    runtime_option_defs_, subnet_id, timers, d2_active,
                    hooks_loaded, config_pair, todo, pre, ncalls >>
    /\ UNCHANGED opt

\* (mutant: the staged D2 client configuration is activated by the commit)
SetD2ClientConfig_Deferred ==
    /\ pc = "commit_d2"
    /\ log' = Append(log, <<"setD2ClientConfig", staging.cfg.d2>>)
    /\ pc' = "commit_hooks"
    /\ UNCHANGED << config_set, check_only, current, staging,
                    runtime_option_defs_, subnet_id, timers, active_sock,
                    d2_active, hooks_loaded, answer, rollback, config_pair,
                    todo, pre, ncalls >>
    /\ UNCHANGED opt

\* CfgMgr::setD2ClientConfig(staging D2ClientConfig).
SetD2ClientConfig ==
    /\ pc = "commit_d2"
    /\ d2_active' = staging.cfg.d2
    /\ log' = Append(log, <<"setD2ClientConfig", staging.cfg.d2>>)
    /\ pc' = "commit_hooks"
    /\ UNCHANGED << config_set, check_only, current, staging,
                    runtime_option_defs_, subnet_id, timers, active_sock,
                    hooks_loaded, answer, rollback, config_pair, todo, pre,
                    ncalls >>
    /\ UNCHANGED opt

\* The libraries of a list that load before the first one that does not.
RECURSIVE LoadedPrefix(_)
LoadedPrefix(libs) ==
    IF libs = <<>> \/ Head(libs) \in { "libBad", "libMissing" } THEN <<>>
    ELSE <<Head(libs)>> \o LoadedPrefix(Tail(libs))

\* HooksConfig::loadLibraries() on the staging configuration.
LoadLibraries ==
    /\ pc = "commit_hooks"
    /\ LET libraries == staging.cfg.hooks IN
       /\ hooks_loaded' = LoadedPrefix(libraries)
       /\ IF LoadedPrefix(libraries) = libraries
          THEN /\ log' = Append(log, <<"loadLibraries">>)
               /\ pc' = "finish"
               /\ UNCHANGED << answer, rollback >>
          ELSE /\ log' = log \o << <<"loadLibraries">>, <<"throw", "load">> >>
               /\ CommitFails(<<"One or more hook libraries failed to load">>)
    /\ UNCHANGED << config_set, check_only, current, staging,
                    runtime_option_defs_, subnet_id, timers, active_sock,
                    d2_active, config_pair, todo, pre, ncalls >>
    /\ UNCHANGED opt

\* if (rollback) { revertRuntimeOptionDefs(); return answer; }
\* answer = (0, "Configuration successful."); return answer;
\* (mutant: the runtime option definitions are not reverted)
Finish_NoRevert ==
    /\ pc = "finish"
    /\ IF rollback
       THEN UNCHANGED answer
       ELSE answer' = [status |-> 0, msg |-> <<"Configuration successful.">>]
    /\ pc' = "returned"
    /\ UNCHANGED << config_set, check_only, current, staging,
                    runtime_option_defs_, subnet_id, timers, active_sock,
                    d2_active, hooks_loaded, rollback, config_pair, todo, log,
                    pre, ncalls >>
    /\ UNCHANGED opt

\* (mutant: the function itself promotes the staging configuration)
Finish_Commits ==
    /\ pc = "finish"
    /\ IF rollback
       THEN /\ runtime_option_defs_' =
                   revertRuntimeOptionDefs(runtime_option_defs_)
            /\ UNCHANGED << answer, current, staging >>
       ELSE /\ answer' = [status |-> 0, msg |-> <<"Configuration successful.">>]
            /\ current' = staging
            /\ staging' = [id |-> staging.id + 1, cfg |-> EmptyCfg]
            /\ UNCHANGED runtime_option_defs_
    /\ pc' = "returned"
    /\ UNCHANGED << config_set, check_only, subnet_id, timers, active_sock,
                    d2_active, hooks_loaded, rollback, config_pair, todo, log,
                    pre, ncalls >>
    /\ UNCHANGED opt

\* (mutant: the success path returns the answer as the phases left it)
Finish_NullAnswer ==
    /\ pc = "finish"
    /\ IF rollback
       THEN runtime_option_defs_' =
                revertRuntimeOptionDefs(runtime_option_defs_)
       ELSE UNCHANGED runtime_option_defs_
    /\ pc' = "returned"
    /\ UNCHANGED << config_set, check_only, current, staging, subnet_id,
                    timers, active_sock, d2_active, hooks_loaded, answer,
                    rollback, config_pair, todo, log, pre, ncalls >>
    /\ UNCHANGED opt

\* if (rollback) { revertRuntimeOptionDefs(); return answer; }
\* answer = (0, "Configuration successful."); return answer;
Finish ==
    /\ pc = "finish"
    /\ IF rollback
       THEN /\ runtime_option_defs_' =
                   revertRuntimeOptionDefs(runtime_option_defs_)
            /\ UNCHANGED answer
       ELSE /\ answer' = [status |-> 0, msg |-> <<"Configuration successful.">>]
            /\ UNCHANGED runtime_option_defs_
    /\ pc' = "returned"
    /\ UNCHANGED << config_set, check_only, current, staging, subnet_id,
                    timers, active_sock, d2_active, hooks_loaded, rollback,
                    config_pair, todo, log, pre, ncalls >>
    /\ UNCHANGED opt

(***************************************************************************)
(* The caller: after a successful call that was not check-only it commits  *)
(* the staging configuration and the runtime option definitions, and sets  *)
(* up the timers of the new configuration.                                 *)
(***************************************************************************)
CallerCommit ==
    /\ pc = "returned"
    /\ answer.status = 0
    /\ ~check_only
    /\ current' = staging
    /\ staging' = [id |-> staging.id + 1, cfg |-> EmptyCfg]
    /\ runtime_option_defs_' = commitRuntimeOptionDefs(runtime_option_defs_)
    /\ timers' = TRUE
    /\ pc' = "idle"
    /\ UNCHANGED << config_set, check_only, subnet_id, active_sock, d2_active,
                    hooks_loaded, answer, rollback, config_pair, todo, log,
                    pre, ncalls >>
    /\ UNCHANGED opt

\* The steps of a call once it is entered, and the caller's commit.
Step ==
    \/ OptionDefPass
    \/ Dispatch
    \/ GlobalParse
    \/ CheckOnly
    \/ ConfigureCommandChannel
    \/ SetD2ClientConfig
    \/ LoadLibraries
    \/ Finish
    \/ CallerCommit

NextParse ==
    \/ \E input \in ParseInputs, chk \in BOOLEAN : Enter(input, chk)
    \/ Step

NextCommit ==
    \/ \E input \in CommitInputs, chk \in BOOLEAN : Enter(input, chk)
    \/ Step

NextMixed ==
    \/ \E input \in MixedInputs, chk \in BOOLEAN : Enter(input, chk)
    \/ Step

NextDefs ==
    \/ \E input \in DefInputs, chk \in BOOLEAN : Enter(input, chk)
    \/ Step

NextOrder ==
    \/ \E input \in OrderInputs, chk \in BOOLEAN : Enter(input, chk)
    \/ Step

NextRsoo ==
    \/ \E input \in RsooInputs : Enter(input, FALSE)
    \/ Step

\* The server fed with documents that exercise the parse phase.
SpecParse == Init /\ [][NextParse]_vars

\* The server fed with documents that exercise the commit phase.
SpecCommit == Init /\ [][NextCommit]_vars

\* The server fed with documents in which either phase may fail.
SpecMixed == Init /\ [][NextMixed]_vars

\* The server fed with documents of option definitions and option data.
SpecDefs == Init /\ [][NextDefs]_vars

\* The server fed with documents whose keys were written in any order.
SpecOrder == Init /\ [][NextOrder]_vars

\* The server fed with documents that hold a relay-supplied-options list.
SpecRsoo == Init /\ [][NextRsoo]_vars

(***************************************************************************)
(* The Option Value Codec: OptionDataParser (option_data_parser.h).        *)
(* parse(single_option) resolves the option definition from the code or    *)
(* the name and the option space, createOption decodes the data against    *)
(* it, and OptionDataListParser::parse stores the descriptor.              *)
(***************************************************************************)
\* longest "data" string of an option specification
MaxData == 5

\* an OptionalValue that is not specified
Unspecified == "unspecified"

\* The characters of a data string: a digit, a letter that is also a
\* hexadecimal digit, and the separator of the CSV format.
Chars == { "7", "a", "," }

RECURSIVE Strings(_)
Strings(n) ==
    IF n = 0 THEN { <<>> }
    ELSE LET S == Strings(n - 1) IN
         S \cup { Append(s, c) : s \in { t \in S : Len(t) = n - 1 },
                                 c \in Chars }

\* The Option Definition Registry: per option space, code and name, the
\* ordered field types and the array flag.
OptionDefs ==
    { [ space |-> "dhcp6", code |-> "1", name |-> "rec3",
        fields |-> << "int", "str", "int" >>, array |-> FALSE ],
      [ space |-> "dhcp6", code |-> "2", name |-> "arr",
        fields |-> << "str", "int" >>, array |-> TRUE ],
      [ space |-> "dhcp4", code |-> "1", name |-> "one4",
        fields |-> << "str" >>, array |-> FALSE ] }

\* The option specifications handed to OptionDataParser::parse.
OptionInputs ==
    [ pc     : { "start" },
      address_family : { "AF_INET", "AF_INET6" },
      code   : { Unspecified, "1" },
      name   : { Unspecified, "rec3", "arr", "nope" },
      space  : { Unspecified, "dhcp4", "dhcp6" },
      csv    : BOOLEAN,
      data   : Strings(MaxData),
      def    : { {} },
      error  : { None },
      descriptor : { {} },
      cfg    : { {} } ]

InitCodec == InitServer /\ opt \in OptionInputs

\* extractSpace: the stated space, or 'dhcp4' / 'dhcp6' by address family.
extractSpace(o) ==
    IF o.space # Unspecified THEN o.space
    ELSE IF o.address_family = "AF_INET" THEN "dhcp4" ELSE "dhcp6"

\* findOptionDefinition: the definition of a space with the given code or
\* name (a set of one definition), or an empty pointer (the empty set).
findOptionDefinition(option_space, search_key) ==
    { d \in OptionDefs : /\ d.space = option_space
                         /\ search_key \in { d.code, d.name } }

Fatal(o, what) == [o EXCEPT !.pc = "failed", !.error = what]

\* (mutant: a name is looked up in every option space)
ResolveDefinition_AnySpace(o) ==
    IF o.code = Unspecified /\ o.name = Unspecified
    THEN { Fatal(o, "option requires a code or a name") }
    ELSE LET key == IF o.code # Unspecified THEN o.code ELSE o.name
             found == { d \in OptionDefs : key \in { d.code, d.name } }
         IN IF found = {}
            THEN { Fatal(o, "definition not found") }
            ELSE { [o EXCEPT !.pc = "resolved", !.def = { d }] : d \in found }

\* extractCode, extractName and the lookup of the definition: the outcomes
\* of the resolution (when a code and a name are both given and the name is
\* not the one of the definition the code selects, the sources at hand do
\* not say whether the specification is accepted).
ResolveDefinition(o) ==
    IF o.code = Unspecified /\ o.name = Unspecified
    THEN { Fatal(o, "option requires a code or a name") }
    ELSE LET key == IF o.code # Unspecified THEN o.code ELSE o.name
             def == findOptionDefinition(extractSpace(o), key)
         IN IF def = {}
            THEN { Fatal(o, "definition not found") }
            ELSE { [o EXCEPT !.pc = "resolved", !.def = def] }
                 \cup IF o.code # Unspecified /\ o.name # Unspecified
                         /\ \A d \in def : o.name # d.name
                      THEN { Fatal(o, "name does not match the code") }
                      ELSE {}

\* The values of a CSV data string: the substrings between the commas.
RECURSIVE SplitFrom(_, _, _)
SplitFrom(data, i, token) ==
    IF i > Len(data) THEN << token >>
    ELSE IF data[i] = ","
         THEN << token >> \o SplitFrom(data, i + 1, <<>>)
         ELSE SplitFrom(data, i + 1, Append(token, data[i]))

Split(data) == IF data = <<>> THEN <<>> ELSE SplitFrom(data, 1, <<>>)

\* The conversion of a value to a field type: an integer is a non-empty
\* string of digits; a string field takes any text.
Converts(type, token) ==
    CASE type = "int" -> token # <<>> /\ \A i \in 1..Len(token) : token[i] = "7"
      [] type = "str" -> TRUE

\* The fields written for the values from position i on; not ok when a
\* value has no field, a field has no value, or a conversion fails.
Malformed_Value == [ ok |-> FALSE, fields |-> <<>> ]

\* (mutant: fields for which no value is given are left out)
RECURSIVE WriteFields_Lenient(_, _, _)
WriteFields_Lenient(def, values, i) ==
    IF i > Len(values) THEN [ ok |-> TRUE, fields |-> <<>> ]
    ELSE IF i > Len(def.fields) /\ ~def.array THEN Malformed_Value
    ELSE LET type == IF i <= Len(def.fields) THEN def.fields[i]
                     ELSE def.fields[Len(def.fields)]
             rest == WriteFields_Lenient(def, values, i + 1)
         IN IF ~Converts(type, values[i]) \/ ~rest.ok
            THEN Malformed_Value
            ELSE [ ok |-> TRUE,
                   fields |-> << <<type, values[i]>> >> \o rest.fields ]

RECURSIVE WriteFields(_, _, _)
WriteFields(def, values, i) ==
    IF i > Len(values)
    THEN IF i <= Len(def.fields) THEN Malformed_Value
         ELSE [ ok |-> TRUE, fields |-> <<>> ]
    ELSE IF i > Len(def.fields) /\ ~def.array THEN Malformed_Value
    ELSE LET type == IF i <= Len(def.fields) THEN def.fields[i]
                     ELSE def.fields[Len(def.fields)]
             rest == WriteFields(def, values, i + 1)
         IN IF ~Converts(type, values[i]) \/ ~rest.ok
            THEN Malformed_Value
            ELSE [ ok |-> TRUE,
                   fields |-> << <<type, values[i]>> >> \o rest.fields ]

\* Binary-hex mode: an even number of hexadecimal digits, taken as raw bytes.
DecodeHex(data) ==
    IF Len(data) % 2 = 0 /\ \A i \in 1..Len(data) : data[i] \in { "7", "a" }
    THEN [ ok |-> TRUE, fields |-> << <<"binary", data>> >> ]
    ELSE Malformed_Value

\* createOption: the option descriptor, or a thrown DhcpConfigError.
createOption(o) ==
    LET def == CHOOSE d \in o.def : TRUE
        payload == IF o.csv THEN WriteFields(def, Split(o.data), 1)
                   ELSE DecodeHex(o.data)
    IN IF ~payload.ok
       THEN Fatal(o, "MalformedValue")
       ELSE [o EXCEPT !.pc = "created",
                      !.descriptor = { [ payload |-> payload.fields,
                                         space |-> extractSpace(o),
                                         code |-> def.code ] }]

\* OptionDataParser::parse, up to the definition.
ParseOption ==
    /\ opt.pc = "start"
    /\ opt' \in ResolveDefinition(opt)
    /\ UNCHANGED srv_vars

\* OptionDataParser::parse, the creation of the option.
CreateOption ==
    /\ opt.pc = "resolved"
    /\ opt' = createOption(opt)
    /\ UNCHANGED srv_vars

\* OptionDataListParser::parse: the descriptor is added to the storage.
StoreOption ==
    /\ opt.pc = "created"
    /\ opt' = [opt EXCEPT !.pc = "stored", !.cfg = opt.descriptor]
    /\ UNCHANGED srv_vars

NextCodec ==
    \/ ParseOption
    \/ CreateOption
    \/ StoreOption

\* One option specification taken through OptionDataParser.
SpecCodec == InitCodec /\ [][NextCodec]_vars

(***************************************************************************)
(* Notions the properties are stated with.                                 *)
(***************************************************************************)
Returned == pc = "returned"

\* The document as the caller handed it in.
InputNull == pre.config_set.null
InputKv == pre.config_set.kv

\* The document makes the parse phase fail: it holds a key the server
\* does not know, or a value its parser rejects.
Malformed(kv) ==
    \/ kv["not-a-real-section"] # Absent
    \/ \E k \in Keys : kv[k] # Absent /\ Rejects(k, kv[k])
    \/ \E k \in Keys : NamesOption(kv[k]) /\ kv["option-def"] # "defX"

InLog(e) == \E i \in 1..Len(log) : log[i] = e

\* A step of the commit phase threw.
PipelineThrew == InLog(<<"throw", "open">>) \/ InLog(<<"throw", "load">>)

IsSockOp(e) == e[1] \in { "close", "open" }
SockOps(l) == SelectSeq(l, IsSockOp)

(***************************************************************************)
(* C1: when the parse phase of a call fails, the Current Configuration     *)
(* after the call is the object it was before the call, and the runtime    *)
(* option definitions are those of before the call.                        *)
(***************************************************************************)
C1_RollbackOnParseFailure ==
    (Returned /\ ~InputNull /\ Malformed(InputKv)) =>
        /\ current = pre.current
        /\ getRuntimeOptionDefs(runtime_option_defs_) = pre.rt

\* a failed call that had staged definitions other than the committed ones
C1_Witness ==
    /\ Returned /\ ~InputNull /\ Malformed(InputKv)
    /\ answer.status = 1
    /\ pre.rt = { "defX" }
    /\ current.id = 1

C3_CheckOnlyKeepsCurrent ==
    check_only => current = pre.current

\* a check-only call that validated a document differing from Current
C3_Witness ==
    /\ Returned /\ check_only /\ answer.status = 0
    /\ current.id = 1
    /\ current.cfg.ctrl = "sockA"
    /\ staging.cfg.ctrl = "sockB"

(***************************************************************************)
(* C4: the status is 1 exactly for an absent input or a failed parse       *)
(* phase, 2 exactly when parsing succeeded, the call is not check-only and *)
(* a commit step threw, and 0 otherwise.                                   *)
(***************************************************************************)
C4_Status ==
    Returned =>
        answer.status =
            IF InputNull \/ Malformed(InputKv) THEN 1
            ELSE IF ~check_only /\ PipelineThrew THEN 2
            ELSE 0

C4_Witness ==
    /\ Returned /\ answer.status = 2
    /\ InLog(<<"throw", "load">>)
    /\ ~Malformed(InputKv)

(***************************************************************************)
(* C5: when a commit step fails (status 2) the Current Configuration is    *)
(* unchanged and the runtime option definitions are those of before the    *)
(* call, whatever the commit steps already changed.                        *)
(***************************************************************************)
C5_RollbackOnCommitFailure ==
    (Returned /\ answer.status = 2) =>
        /\ current = pre.current
        /\ getRuntimeOptionDefs(runtime_option_defs_) = pre.rt

\* the D2 client configuration already is the rejected one
C5_Witness ==
    /\ Returned /\ answer.status = 2
    /\ pre.rt = { "defX" }
    /\ pre.d2_active = "d2off"
    /\ d2_active = "d2on"
    /\ current.cfg.d2 = "d2off"

(***************************************************************************)
(* C6: the Staging Configuration a call obtains holds nothing written by   *)
(* an earlier call.                                                        *)
(***************************************************************************)
C6_FreshStaging ==
    pc = "optdef" => staging.cfg = EmptyCfg

(***************************************************************************)
(* C7: a call with a null tree returns status 1 with the fixed diagnostic  *)
(* and changes nothing.                                                    *)
(***************************************************************************)
C7_NullConfig ==
    (Returned /\ InputNull) =>
        /\ answer = [status |-> 1, msg |-> <<"Can't parse NULL config">>]
        /\ log = <<>>
        /\ current = pre.current
        /\ staging = pre.staging
        /\ getRuntimeOptionDefs(runtime_option_defs_) = pre.rt
        /\ subnet_id = pre.subnet_id
        /\ timers = pre.timers
        /\ active_sock = pre.active_sock
        /\ d2_active = pre.d2_active
        /\ hooks_loaded = pre.hooks_loaded

\* a null call made when a reset would show
C7_Witness ==
    /\ Returned /\ InputNull
    /\ subnet_id = 2
    /\ timers

(***************************************************************************)
(* C8 as claimed: a document with an unknown top-level key always yields   *)
(* a failure whose message names that key, Current unchanged.              *)
(***************************************************************************)
UnknownKeyMsg ==
    << "unsupported global configuration parameter: ", "not-a-real-section" >>

C8_Original ==
    (Returned /\ ~InputNull /\ InputKv["not-a-real-section"] # Absent) =>
        /\ answer.status # 0
        /\ answer.msg = UnknownKeyMsg
        /\ current = pre.current

\* A step that runs before the loop reaches the unknown key throws: the
\* option-def pass, or the parser of a key the map iterates earlier.
FailsBeforeUnknown(kv) ==
    \/ kv["option-def"] # Absent /\ Rejects("option-def", kv["option-def"])
    \/ \E k \in ParsedKeys \cap Keys :
          /\ KeyPos(k) < KeyPos("not-a-real-section")
          /\ kv[k] # Absent
          /\ Rejects(k, kv[k])

(***************************************************************************)
(* C8 amended: a document with an unknown top-level key always yields      *)
(* status 1 and leaves Current unchanged; the message names the unknown    *)
(* key unless the option-def pass or the parser of a key iterated before   *)
(* it failed first, and then it is the message of that first failure.      *)
(***************************************************************************)
C8_UnknownKey ==
    (Returned /\ ~InputNull /\ InputKv["not-a-real-section"] # Absent) =>
        /\ answer.status = 1
        /\ current = pre.current
        /\ (answer.msg = UnknownKeyMsg) <=> ~FailsBeforeUnknown(InputKv)

\* the unknown key is reported although a later key is malformed too
C8_Witness ==
    /\ Returned
    /\ InputKv["not-a-real-section"] # Absent
    /\ InputKv["subnet6"] = "bad"
    /\ answer.msg = UnknownKeyMsg

(***************************************************************************)
(* C9 as claimed: when the staged and the current control-socket           *)
(* descriptors are both absent, or both present and equal, neither close   *)
(* nor open is called; otherwise close, then open iff one is staged.       *)
(***************************************************************************)
\* configureCommandChannel has run in the present call
ChannelDone == pc = "commit_d2" \/ InLog(<<"throw", "open">>)

ExpectedSockOps(sock_cfg) ==
    IF sock_cfg # None
    THEN << <<"close">>, <<"open", sock_cfg>> >>
    ELSE << <<"close">> >>

Rank(e) ==
    CASE e[1] \in { "close", "open" }   -> 1
      [] e[1] = "setD2ClientConfig"     -> 2
      [] e[1] = "loadLibraries"         -> 3
      [] OTHER                          -> 0

IsStep(e) == Rank(e) > 0
Steps(l) == SelectSeq(l, IsStep)

C10_PipelineOrder ==
    LET st == Steps(log) IN
    /\ \A i, j \in 1..Len(st) : i < j => Rank(st[i]) <= Rank(st[j])
    /\ \A i, j \in 1..Len(st) : (i < j /\ Rank(st[i]) > 1) => Rank(st[i]) < Rank(st[j])
    /\ \A i \in 1..Len(log) : log[i][1] = "throw" => i = Len(log)
    /\ (pc # "idle" /\ InLog(<<"loadLibraries">>)) =>
           InLog(<<"setD2ClientConfig", staging.cfg.d2>>)
    /\ (pc # "idle" /\ \E i \in 1..Len(st) : Rank(st[i]) = 2) =>
           /\ InLog(<<"setD2ClientConfig", staging.cfg.d2>>)
           /\ d2_active = staging.cfg.d2
    /\ (Returned /\ PipelineThrew) => answer.status = 2
    /\ (Returned /\ answer.status = 0 /\ ~check_only) =>
           /\ InLog(<<"loadLibraries">>)
           /\ hooks_loaded = staging.cfg.hooks

\* the socket step failed: the staged D2 configuration was not activated
C10_Witness ==
    /\ Returned /\ answer.status = 2
    /\ InLog(<<"throw", "open">>)
    /\ staging.cfg.d2 = "d2on"
    /\ d2_active = "d2off"
    /\ ~InLog(<<"loadLibraries">>)

(***************************************************************************)
(* C11: no step of the commit pipeline (socket close/open, D2 client       *)
(* configuration replacement, hook loading) runs in a call that is         *)
(* check-only or whose parse phase failed; the pipeline is entered only    *)
(* after the option-def pass, every section parser of the document and the *)
(* global-scalar parser have run without throwing.                         *)
(***************************************************************************)
InPipeline ==
    \/ pc \in { "commit_socket", "commit_d2", "commit_hooks" }
    \/ Steps(log) # <<>>

ParsedAll(kv) ==
    /\ InLog(<<"parse", "global">>)
    /\ ~InLog(<<"throw", "global">>)
    /\ \A k \in (ParsedKeys \cup { "option-def" }) \cap Keys :
          kv[k] # Absent => InLog(<<"parse", k>>) /\ ~InLog(<<"throw", k>>)

C11_PipelineOnlyAfterParse ==
    /\ InPipeline =>
          /\ ~check_only
          /\ ~InputNull
          /\ ~Malformed(InputKv)
          /\ ParsedAll(InputKv)
    /\ (pc # "idle" /\ (check_only \/ InputNull \/ Malformed(InputKv))) =>
          /\ Steps(log) = <<>>
          /\ active_sock = pre.active_sock
          /\ d2_active = pre.d2_active
          /\ hooks_loaded = pre.hooks_loaded

\* a rejected document whose staged socket, D2 and hooks differ from the
\* active ones: nothing of it was activated
C11_Witness ==
    /\ Returned /\ answer.status = 1
    /\ staging.cfg.ctrl = "sockA"
    /\ staging.cfg.d2 = "d2on"
    /\ staging.cfg.hooks = << "libA", "libBad" >>
    /\ active_sock = None /\ d2_active = "d2off" /\ hooks_loaded = <<>>
    /\ Steps(log) = <<>>

(***************************************************************************)
(* C12: a check-only call ends with the runtime option definitions         *)
(* reverted to those of before the call; it answers status 0 with the      *)
(* validation-only message exactly when its parse phase succeeded, and     *)
(* otherwise the status-1 answer of the parse phase (or of the null test). *)
(***************************************************************************)
SaneAnswer == [status |-> 0, msg |-> <<"Configuration seems sane.">>]

C12_CheckOnly ==
    (Returned /\ check_only) =>
        /\ ~runtime_option_defs_.modified
        /\ getRuntimeOptionDefs(runtime_option_defs_) = pre.rt
        /\ ~InputNull => rollback
        /\ (answer = SaneAnswer) <=> (~InputNull /\ ~Malformed(InputKv))
        /\ (InputNull \/ Malformed(InputKv)) =>
               /\ answer.status = 1
               /\ answer.msg # SaneAnswer.msg

\* a check-only call that staged definitions and then failed
C12_Witness ==
    /\ Returned /\ check_only
    /\ staging.cfg.optdef = { "defX" }
    /\ InLog(<<"parse", "option-def">>)
    /\ answer = [status |-> 1, msg |-> <<"error in ", "subnet6">>]
    /\ getRuntimeOptionDefs(runtime_option_defs_) = {}

(***************************************************************************)
(* C13: every call returns an answer with a status in {0, 1, 2} and a      *)
(* message; and the Current Configuration is at all times either the one   *)
(* of before the call, or - after a status-0 call that was not check-only  *)
(* has been committed - the whole configuration the call staged, holding   *)
(* every section of the document and the global scalars.                   *)
(***************************************************************************)
\* The configuration holds what the sections of the document say.
HoldsDocument(cfg, kv) ==
    /\ kv["control-socket"] # Absent => cfg.ctrl = kv["control-socket"]
    /\ kv["dhcp-ddns"] # Absent => cfg.d2 = kv["dhcp-ddns"]
    /\ kv["hooks-libraries"] # Absent =>
           cfg.hooks = HookList(kv["hooks-libraries"])
    /\ kv["option-def"] # Absent => cfg.optdef = { kv["option-def"] }
    /\ cfg.decline = setAllDefaults(kv)["decline-probation-period"]

C13_AnswerAndCurrent ==
    /\ Returned =>
          /\ answer.status \in { 0, 1, 2 }
          /\ answer.msg # <<>>
          /\ current = pre.current
    /\ \/ current = pre.current
       \/ /\ pc = "idle"
          /\ answer.status = 0 /\ ~check_only
          /\ current.id = pre.staging.id
          /\ HoldsDocument(current.cfg, InputKv)

\* a commit failure after two libraries were asked for and one loaded:
\* Current is the one committed before
C13_Witness ==
    /\ Returned /\ answer.status = 2
    /\ current.id = 1
    /\ current.cfg.hooks = <<>>
    /\ hooks_loaded = << "libA" >>
    /\ d2_active = "d2on" /\ current.cfg.d2 = "d2off"

(***************************************************************************)
(* C14: in every call the "option-def" section is parsed first and at most *)
(* once - although the map iterates "option-data" before "option-def" -    *)
(* so an option-data entry, global or inside a subnet, that names a        *)
(* definition given by the same document resolves, and one that names a    *)
(* definition the document does not give is rejected.                      *)
(***************************************************************************)
ParsesOf(k) == { i \in 1..Len(log) : log[i] = <<"parse", k>> }

C14_DefinitionsFirst ==
    /\ ParsesOf("option-def") \subseteq { 1 }
    /\ (pc # "optdef" /\ ~InputNull /\ InputKv["option-def"] # Absent) =>
           ParsesOf("option-def") = { 1 }
    /\ \A k \in { "option-data", "subnet6" } :
          (NamesOption(InputKv[k]) /\ ParsesOf(k) # {}) =>
              /\ InputKv["option-def"] = "defX" <=> ~InLog(<<"throw", k>>)
              /\ \A i \in ParsesOf(k) : i > 1 \/ InputKv["option-def"] = Absent
    /\ (Returned /\ ~InputNull /\ InputKv["option-def"] = "defX") =>
           answer.status # 1

\* definitions, global option data and a subnet with option data in one
\* accepted document
C14_Witness ==
    /\ Returned /\ answer.status = 0 /\ ~check_only
    /\ InputKv["option-data"] = "useX"
    /\ InputKv["subnet6"] = "oneUseX"
    /\ staging.cfg.options = { <<"useX", "defX">> }
    /\ log[1] = <<"parse", "option-def">>
    /\ log[2] = <<"parse", "option-data">>

(***************************************************************************)
(* C15: the content a successful call stages is determined by its document *)
(* alone, whatever calls were made before it - so applying a document      *)
(* again yields the same decoded content, and its subnets get the          *)
(* identifiers 1, 2, ... each time.                                        *)
(***************************************************************************)
\* What a document decodes to in a configuration nothing was written to.
DecodedContent(kv) ==
    [ ctrl    |-> IF kv["control-socket"] = Absent
                  THEN None ELSE kv["control-socket"],
      d2      |-> IF kv["dhcp-ddns"] = Absent THEN "d2off" ELSE kv["dhcp-ddns"],
      hooks   |-> IF kv["hooks-libraries"] = Absent
                  THEN <<>> ELSE HookList(kv["hooks-libraries"]),
      optdef  |-> IF kv["option-def"] = Absent THEN {} ELSE { kv["option-def"] },
      options |-> IF kv["option-data"] = Absent
                  THEN {} ELSE { <<kv["option-data"], "defX">> },
      subnets |-> IF kv["subnet6"] = Absent THEN <<>> ELSE << 1 >>,
      decline |-> setAllDefaults(kv)["decline-probation-period"] ]

C16_ParseFailureFrame ==
    (Returned /\ answer.status = 1) =>
        /\ timers = pre.timers
        /\ active_sock = pre.active_sock
        /\ d2_active = pre.d2_active
        /\ hooks_loaded = pre.hooks_loaded
        /\ runtime_option_defs_.current = pre.rt
        /\ current = pre.current

(***************************************************************************)
(* C17: the tree the caller handed in has, during and after the call,      *)
(* exactly the keys and values it had when the call was made.              *)
(***************************************************************************)
C17_TreeNotMutated ==
    ncalls > 0 => config_set = pre.config_set

(***************************************************************************)
(* C18 as claimed: at every point a reader sees either the Current         *)
(* Configuration and the active D2 client configuration of before the      *)
(* call, or the new Current Configuration with its own D2 client           *)
(* configuration active.                                                   *)
(***************************************************************************)
C18_Original ==
    \/ current = pre.current /\ d2_active = pre.d2_active
    \/ current.id = pre.staging.id /\ d2_active = current.cfg.d2

(***************************************************************************)
(* C18 amended: a reader of the Current Configuration sees, at every point *)
(* of a call, the object of before the call, and after the caller's commit *)
(* the whole staged object; the active D2 client configuration is replaced *)
(* by the second commit step, before Current is, so from that step until   *)
(* the commit (and for good when the call returns status 2) the reader     *)
(* sees the staged D2 client configuration next to the old Current.        *)
(***************************************************************************)
C18_ReaderView ==
    /\ pc # "idle" => current = pre.current
    /\ pc = "idle" =>
          /\ d2_active = current.cfg.d2
          /\ ncalls > 0 => current.id = pre.staging.id
    /\ (pc # "idle" /\ InLog(<<"setD2ClientConfig", staging.cfg.d2>>)) =>
          d2_active = staging.cfg.d2
    /\ (pc # "idle" /\ ~InLog(<<"setD2ClientConfig", staging.cfg.d2>>)) =>
          d2_active = pre.d2_active

\* the reader sees the new D2 client configuration and the old Current
C18_Witness ==
    /\ pc = "commit_hooks"
    /\ d2_active = "d2on"
    /\ pre.d2_active = "d2off"
    /\ current.cfg.d2 = "d2off"
    /\ current = pre.current

(***************************************************************************)
(* C19: in CSV mode an option is created only if every field of the        *)
(* definition has its value, in order and convertible to the field's type, *)
(* and every value has a field (values beyond the fields only for an array *)
(* definition, with the last field's type); fewer values than fields of a  *)
(* non-array definition is a MalformedValue, and after a failure no        *)
(* descriptor is returned or stored.                                       *)
(***************************************************************************)
\* The number of comma-separated values of a data string.
NumValues(data) ==
    IF data = <<>> THEN 0
    ELSE 1 + Cardinality({ i \in 1..Len(data) : data[i] = "," })

FieldType(def, i) ==
    IF i <= Len(def.fields) THEN def.fields[i] ELSE def.fields[Len(def.fields)]

C19_CsvDecode ==
    (opt.pc \in { "created", "stored", "failed" } /\ opt.csv /\ opt.def # {}) =>
        LET def == CHOOSE d \in opt.def : TRUE
            n == NumValues(opt.data)
            values == Split(opt.data)
        IN /\ opt.pc # "failed" =>
                 /\ IF def.array THEN n >= Len(def.fields)
                                 ELSE n = Len(def.fields)
                 /\ \E d \in opt.descriptor :
                       /\ Len(d.payload) = n
                       /\ \A i \in 1..n :
                             /\ d.payload[i] = << FieldType(def, i), values[i] >>
                             /\ Converts(FieldType(def, i), values[i])
           /\ (~def.array /\ n < Len(def.fields)) =>
                 opt.pc = "failed" /\ opt.error = "MalformedValue"
           /\ opt.pc = "failed" => opt.descriptor = {} /\ opt.cfg = {}
           /\ opt.pc = "stored" => opt.cfg = opt.descriptor

\* two values for the three fields of a definition that is not an array
C19_Witness ==
    /\ opt.pc = "failed" /\ opt.error = "MalformedValue"
    /\ opt.csv
    /\ opt.data = << "7", ",", "a" >>
    /\ \E d \in opt.def : d.name = "rec3" /\ Len(d.fields) = 3 /\ ~d.array
    /\ opt.descriptor = {} /\ opt.cfg = {}

IsLoopParse(e) ==
    e[1] = "parse" /\ e[2] \in ParsedKeys
LoopParses(l) == SelectSeq(l, IsLoopParse)

PosIn(seq, k) == CHOOSE i \in 1..Len(seq) : seq[i] = k

C21_Original ==
    (ncalls > 0 /\ ~InputNull) =>
        LET p == LoopParses(log) IN
        \A i, j \in 1..Len(p) :
            i < j => PosIn(pre.config_set.written, p[i][2])
                         < PosIn(pre.config_set.written, p[j][2])

(***************************************************************************)
(* C21 amended: apart from "option-def", the section parsers of a call are *)
(* invoked in the ascending order of the key strings, in which the map     *)
(* holds them, whatever the order they were written in.                    *)
(***************************************************************************)
C21_KeyOrder ==
    (ncalls > 0 /\ ~InputNull) =>
        LET p == LoopParses(log) IN
        /\ \A i, j \in 1..Len(p) : i < j => KeyPos(p[i][2]) < KeyPos(p[j][2])
        /\ (pc \in { "check", "finish", "returned" } /\ ~rollback) =>
               { p[i][2] : i \in 1..Len(p) } =
                   { k \in ParsedKeys \cap Keys : InputKv[k] # Absent }

\* "subnet6" was written before "control-socket" and parsed after it
C21_Witness ==
    /\ Returned /\ answer.status = 0
    /\ pre.config_set.written = << "subnet6", "option-def", "control-socket" >>
    /\ log[1] = <<"parse", "option-def">>
    /\ log[2] = <<"parse", "control-socket">>
    /\ log[3] = <<"parse", "subnet6">>

(***************************************************************************)
(* C22: the parse phase stops at the first failure: exactly one parser     *)
(* throws in a call whose document is malformed, it is the first one in    *)
(* the order of processing (the option-def pass, the keys of the map in    *)
(* turn, the global scalars) that rejects its section, nothing is parsed   *)
(* after it, and the answer carries its message.                           *)
(***************************************************************************)
\* The keys of a document that a step of the loop throws on.
LoopFailures(kv) ==
    { k \in Keys \ SkippedKeys :
         kv[k] # Absent /\ (IsUnsupported(k) \/ Rejects(k, kv[k])) }

\* The step that fails first, by the document alone.
FirstFailing(kv) ==
    IF kv["option-def"] # Absent /\ Rejects("option-def", kv["option-def"])
    THEN "option-def"
    ELSE IF LoopFailures(kv) # {}
    THEN CHOOSE k \in LoopFailures(kv) :
             \A o \in LoopFailures(kv) : KeyPos(k) <= KeyPos(o)
    ELSE "global"

FailureMsg(k) ==
    IF k = "global" THEN << "error in ", "decline-probation-period" >>
    ELSE IF IsUnsupported(k)
    THEN << "unsupported global configuration parameter: ", k >>
    ELSE << "error in ", k >>

C22_FirstFailure ==
    /\ Cardinality({ i \in 1..Len(log) : log[i][1] = "throw" }) <= 1
    /\ (Returned /\ ~InputNull /\ Malformed(InputKv)) =>
          LET k == FirstFailing(InputKv) IN
          /\ log[Len(log)] = << "throw", k >>
          /\ answer = [status |-> 1, msg |-> FailureMsg(k)]
          /\ k # "global" => ~InLog(<<"parse", "global">>)
          /\ \A o \in ParsedKeys \cap Keys :
                (k = "option-def" \/ (k # "global" /\ KeyPos(o) > KeyPos(k)))
                    => ~InLog(<<"parse", o>>)

\* three malformed sections: the first one in key order is reported and
\* the two after it are not looked at
C22_Witness ==
    /\ Returned
    /\ InputKv["hooks-libraries"] = "libMissing"
    /\ InputKv["subnet6"] = "bad"
    /\ InputKv["decline-probation-period"] = "bad"
    /\ answer = [status |-> 1, msg |-> << "error in ", "hooks-libraries" >>]
    /\ ~InLog(<<"parse", "subnet6">>)
    /\ ~InLog(<<"parse", "global">>)

(***************************************************************************)
(* C23: the runtime option definitions are replaced wholesale by each      *)
(* call: when a document without "option-def" has been applied the runtime *)
(* set is empty, before and after the caller's commit, and inside a call   *)
(* whose document gives no definitions an option-data entry that names one *)
(* is rejected, whatever definitions earlier configurations supplied.      *)
(***************************************************************************)
Applied == answer.status = 0 /\ ~check_only /\ ~InputNull

C23_ReplacedWholesale ==
    /\ (ncalls > 0 /\ pc \in { "idle", "returned" } /\ Applied
            /\ InputKv["option-def"] = Absent) =>
           getRuntimeOptionDefs(runtime_option_defs_) = {}
    /\ (ncalls > 0 /\ pc = "idle" /\ Applied) =>
           runtime_option_defs_.current =
               IF InputKv["option-def"] = Absent
               THEN {} ELSE { InputKv["option-def"] }
    /\ (ncalls > 0 /\ ~InputNull /\ InputKv["option-def"] = Absent) =>
           \A k \in { "option-data", "subnet6" } :
               (NamesOption(InputKv[k]) /\ ParsesOf(k) # {}) =>
                   /\ InLog(<<"throw", k>>)
                   /\ Returned => answer.status = 1

\* the configuration applied before supplied a definition; this call's
\* document has none and the runtime set is empty once it is committed
C23_Witness ==
    /\ pc = "idle" /\ ncalls > 1 /\ Applied
    /\ pre.rt = { "defX" }
    /\ pre.current.cfg.optdef = { "defX" }
    /\ InputKv["option-def"] = Absent
    /\ InputKv["subnet6"] = "one"
    /\ getRuntimeOptionDefs(runtime_option_defs_) = {}

(***************************************************************************)
(* C24: when the parse phase fails, the key logged with the error message  *)
(* (config_pair.first in the catch clauses) is the top-level key of the    *)
(* parser that raised: "option-def" for the option-def pass, the key of    *)
(* the dispatched or unsupported section, and the global scalar for the    *)
(* global parser.                                                          *)
(***************************************************************************)
\* The parser whose throw ended the parse phase, empty when none did.
ParseThrower ==
    { log[i][2] : i \in { j \in 1..Len(log) :
                            /\ log[j][1] = "throw"
                            /\ log[j][2] \in Keys \cup { "global" } } }

RaisingKey(t) == IF t = "global" THEN "decline-probation-period" ELSE t

C24_FailingKeyLogged ==
    \A t \in ParseThrower : config_pair = RaisingKey(t)

(***************************************************************************)
(* C25: relay-supplied-options: every element that writes a decimal        *)
(* integer in 0..65535 enables exactly that code in the staged RSOO set,   *)
(* and every element that is not an integer enables the code of the        *)
(* dhcp6 option of that name; so a list of such elements is accepted and   *)
(* stages exactly their codes.                                             *)
(***************************************************************************)
RsooKey == "relay-supplied-options"

\* The parser of the list has run in the call under way.
RsooParsed == pc # "idle" /\ InLog(<<"parse", RsooKey>>)

IsInteger(e) ==
    LET d == IF e # <<>> /\ e[1] = "-" THEN Tail(e) ELSE e IN
    d # <<>> /\ \A i \in 1..Len(d) : IsDigit(d[i])

\* The code the claim gives to an element, none when it gives none.
ClaimedCode(e) ==
    IF IsInteger(e)
    THEN IF e[1] # "-" /\ Decimal(e) \in 0..UINT16_MAX
         THEN { Decimal(e) } ELSE {}
    ELSE { def.code : def \in getOptionDef(DHCP6_OPTION_SPACE, e) }

ClaimedCodes(l, n) == UNION { ClaimedCode(l[i]) : i \in 1..n }

C25_Original ==
    (RsooParsed /\ \A i \in 1..Len(config_set.list) :
                       ClaimedCode(config_set.list[i]) # {}) =>
        /\ ~InLog(<<"throw", RsooKey>>)
        /\ staging.cfg.rsoo =
               pre.staging.cfg.rsoo
                   \cup ClaimedCodes(config_set.list, Len(config_set.list))

(***************************************************************************)
(* C26: relay-supplied-options: an element that is a negative integer, an  *)
(* integer greater than 65535 or a name no dhcp6 option has makes the      *)
(* parser throw a configuration error that carries the position of the     *)
(* list; that element enables no code, no element after it is processed,   *)
(* and the call returns status 1.                                          *)
(***************************************************************************)
IsBadEntry(e) ==
    IF IsInteger(e)
    THEN e[1] = "-" \/ Decimal(e) > UINT16_MAX
    ELSE getOptionDef(DHCP6_OPTION_SPACE, e) = {}

BadEntries(l) == { i \in 1..Len(l) : IsBadEntry(l[i]) }

FirstBad(l) == CHOOSE i \in BadEntries(l) : \A j \in BadEntries(l) : i <= j

C26_RsooErrors ==
    (RsooParsed /\ BadEntries(config_set.list) # {}) =>
        LET l == config_set.list
            before == ClaimedCodes(l, FirstBad(l) - 1)
        IN
        /\ InLog(<<"throw", RsooKey>>)
        /\ ~InLog(<<"parse", "subnet6">>) /\ ~InLog(<<"parse", "global">>)
        /\ rollback
        /\ answer.status = 1
        /\ Len(answer.msg) = 3 /\ answer.msg[3] = getPosition(RsooKey)
        /\ staging.cfg.rsoo \subseteq pre.staging.cfg.rsoo \cup before
        /\ (\A i \in 1..(FirstBad(l) - 1) : l[i] # << "0" >>) =>
               staging.cfg.rsoo = pre.staging.cfg.rsoo \cup before
        /\ current = pre.current

\* a negative code followed by a known name: the call fails and the name
\* after the failing element is not enabled
C26_Witness ==
    /\ Returned /\ RsooParsed
    /\ config_set.list = << << "-", "1" >>, << "u", "n", "i", "c", "a", "s", "t" >> >>
    /\ ~check_only
    /\ pre.staging.cfg.rsoo = {}
    /\ staging.cfg.rsoo = {}
    /\ answer = [ status |-> 1,
                  msg |-> << "the option code must be a non-negative value",
                             RsooKey, getPosition(RsooKey) >> ]

(***************************************************************************)
(* C27: whatever calls were made before, when a call that is not           *)
(* check-only returns status 0 the active control socket is the one of     *)
(* the control-socket descriptor staged by that call, and there is no      *)
(* active socket when no descriptor is staged.                             *)
(***************************************************************************)
C27_SocketMatchesStaged ==
    (Returned /\ answer.status = 0 /\ ~check_only) =>
        active_sock = staging.cfg.ctrl

====
